---- MODULE Spec2Model ----
(***************************************************************************)
(* Model of src/main.py (FocusedContactScraper).                           *)
(*                                                                         *)
(* Text is a sequence of one-character strings, so that the regular        *)
(* expressions, str.lower(), substring tests, strip() and join() of the    *)
(* source are computed character by character.                             *)
(***************************************************************************)
EXTENDS Integers, Sequences, FiniteSets, TLC

VARIABLES
    pc,         \* position of the running function
    text,       \* argument of extract_emails / extract_phone_numbers
    emails,     \* list returned by extract_emails
    phones,     \* list returned by extract_phone_numbers
    field,      \* the joined 'emails' / 'phone_numbers' field of the record
    doc,        \* parsed document (soup) handed to find_contact_sections
    sections,   \* contact_sections (line 86)
    record,     \* dict returned by scrape_page
    urls,       \* argument of scrape_multiple_urls
    delay,      \* self.delay
    idx,        \* position of the for loop of scrape_multiple_urls (1-based)
    results,    \* results list (line 121)
    gets,       \* history: URLs handed to requests.get, in call order
    events,     \* history: observable events of the run, in order
    clock,      \* time slept so far
    file,       \* rows of the CSV written by to_csv
    outcome     \* history: what the network and the parser did for the current URL

vars == <<pc, text, emails, phones, field, doc, sections, record,
          urls, delay, idx, results, gets, events, clock, file, outcome>>

-----------------------------------------------------------------------------
(* Characters *)

LowerSeq == <<"a","b","c","d","e","f","g","h","i","j","k","l","m",
              "n","o","p","q","r","s","t","u","v","w","x","y","z">>
UpperSeq == <<"A","B","C","D","E","F","G","H","I","J","K","L","M",
              "N","O","P","Q","R","S","T","U","V","W","X","Y","Z">>
DigitSeq == <<"0","1","2","3","4","5","6","7","8","9">>

Range(s) == {s[i] : i \in DOMAIN s}

Lower  == Range(LowerSeq)
Upper  == Range(UpperSeq)
Letter == Lower \cup Upper
Digit  == Range(DigitSeq)
Space  == {" ", "\t", "\n", "\r"}

\* str.lower() on one character
LowerChar(c) ==
    IF c \in Upper THEN LowerSeq[CHOOSE i \in DOMAIN UpperSeq : UpperSeq[i] = c]
    ELSE c

\* str.lower()
LowerStr(s) == [i \in DOMAIN s |-> LowerChar(s[i])]

\* `sub in s` for strings
Contains(s, sub) ==
    \E i \in 1..(Len(s) - Len(sub) + 1) : SubSeq(s, i, i + Len(sub) - 1) = sub

RECURSIVE Flatten(_)
\* ''.join(list)
Flatten(ss) == IF ss = <<>> THEN <<>> ELSE Head(ss) \o Flatten(Tail(ss))

RECURSIVE JoinWith(_, _)
\* sep.join(list)
JoinWith(sep, ss) ==
    IF ss = <<>> THEN <<>>
    ELSE IF Len(ss) = 1 THEN ss[1]
    ELSE ss[1] \o sep \o JoinWith(sep, Tail(ss))

\* all orderings of a finite set, as sequences without repetition
Orderings(S) ==
    {f \in [1..Cardinality(S) -> S] : \A i, j \in 1..Cardinality(S) : f[i] = f[j] => i = j}

-----------------------------------------------------------------------------
(* Regular expressions: a pattern is a sequence of quantified character     *)
(* classes, matched greedily with backtracking as Python's re does.         *)

Exactly(cls, n)    == [cls |-> cls, min |-> n, max |-> n, many |-> FALSE]
Optional(cls)      == [cls |-> cls, min |-> 0, max |-> 1, many |-> FALSE]
Between(cls, m, n) == [cls |-> cls, min |-> m, max |-> n, many |-> FALSE]
AtLeast(cls, m)    == [cls |-> cls, min |-> m, max |-> m, many |-> TRUE]

RECURSIVE Run(_, _, _)
\* number of consecutive characters of cls in t starting at pos
Run(cls, t, pos) ==
    IF pos > Len(t) THEN 0
    ELSE IF t[pos] \notin cls THEN 0
    ELSE 1 + Run(cls, t, pos + 1)

RECURSIVE MatchFrom(_, _, _, _), TryCount(_, _, _, _, _)
\* Position just after the first successful match of items k.. of pat at
\* pos (longest repetition tried first), or 0 when there is none.
MatchFrom(pat, k, t, pos) ==
    IF k > Len(pat) THEN pos
    ELSE LET run == Run(pat[k].cls, t, pos)
             hi  == IF pat[k].many \/ run < pat[k].max THEN run ELSE pat[k].max
         IN  IF hi < pat[k].min THEN 0 ELSE TryCount(pat, k, t, pos, hi)

TryCount(pat, k, t, pos, n) ==
    LET r == MatchFrom(pat, k + 1, t, pos + n)
    IN  IF r # 0 THEN r
        ELSE IF n > pat[k].min THEN TryCount(pat, k, t, pos, n - 1)
        ELSE 0

RECURSIVE FindAllFrom(_, _, _)
\* re.findall: leftmost non-overlapping matches scanning from pos
FindAllFrom(pat, t, pos) ==
    IF pos > Len(t) THEN <<>>
    ELSE LET e == MatchFrom(pat, 1, t, pos)
         IN  IF e = 0 THEN FindAllFrom(pat, t, pos + 1)
             ELSE <<SubSeq(t, pos, e - 1)>> \o FindAllFrom(pat, t, e)

FindAll(pat, t) == FindAllFrom(pat, t, 1)

-----------------------------------------------------------------------------
(* extract_emails *)

LocalChars  == Letter \cup Digit \cup {".", "_", "%", "+", "-"}
DomainChars == Letter \cup Digit \cup {".", "-"}

email_pattern ==
    << AtLeast(LocalChars, 1), Exactly({"@"}, 1), AtLeast(DomainChars, 1),
       Exactly({"."}, 1), AtLeast(Letter, 2) >>

ExampleCom == <<"e","x","a","m","p","l","e",".","c","o","m">>
DomainCom  == <<"d","o","m","a","i","n",".","c","o","m">>
FakeDomains == {ExampleCom, DomainCom}

\* faulty variant of IsFake: the placeholder test without .lower()
IsFakeCaseSensitive(email) == \E fake \in FakeDomains : Contains(email, fake)

\* any(fake in email.lower() for fake in ['example.com', 'domain.com'])
IsFake(email) == \E fake \in FakeDomains : Contains(LowerStr(email), fake)

\* The lists extract_emails may return: list(set(...)) has no defined order,
\* and the filter keeps the order of that list.
extract_emails(t) ==
    Orderings({e \in Range(FindAll(email_pattern, t)) : ~IsFake(e)})

NoEmailFound == <<"N","o"," ","e","m","a","i","l"," ","f","o","u","n","d">>
NoPhoneFound == <<"N","o"," ","p","h","o","n","e"," ","f","o","u","n","d">>
CommaSpace   == <<",", " ">>

\* ', '.join(emails) if emails else 'No email found'
EmailsField(es) == IF es # <<>> THEN JoinWith(CommaSpace, es) ELSE NoEmailFound

\* ', '.join(phones) if phones else 'No phone found'
PhonesField(ps) == IF ps # <<>> THEN JoinWith(CommaSpace, ps) ELSE NoPhoneFound

-----------------------------------------------------------------------------
(* extract_phone_numbers *)

Sep == {"-", ".", " "}

\* \+?\d{1,3}[-. ]?\(?\d{3}\)?[-. ]?\d{3}[-. ]?\d{4}
phone_pattern_a ==
    << Optional({"+"}), Between(Digit, 1, 3), Optional(Sep), Optional({"("}),
       Exactly(Digit, 3), Optional({")"}), Optional(Sep), Exactly(Digit, 3),
       Optional(Sep), Exactly(Digit, 4) >>

\* \d{3}[-. ]?\d{3}[-. ]?\d{4}
phone_pattern_b ==
    << Exactly(Digit, 3), Optional(Sep), Exactly(Digit, 3), Optional(Sep),
       Exactly(Digit, 4) >>

\* \(\d{3}\)\s*\d{3}[-. ]?\d{4}
phone_pattern_c ==
    << Exactly({"("}, 1), Exactly(Digit, 3), Exactly({")"}, 1), AtLeast(Space, 0),
       Exactly(Digit, 3), Optional(Sep), Exactly(Digit, 4) >>

\* faulty variant of phone_patterns: the US format is applied before the international one
phone_patterns_us_first == <<phone_pattern_b, phone_pattern_a, phone_pattern_c>>

phone_patterns == <<phone_pattern_a, phone_pattern_b, phone_pattern_c>>

RECURSIVE FindAllPatterns(_, _)
\* for pattern in phone_patterns: phones.extend(re.findall(pattern, text))
FindAllPatterns(pats, t) ==
    IF pats = <<>> THEN <<>>
    ELSE FindAll(Head(pats), t) \o FindAllPatterns(Tail(pats), t)

\* faulty variant of CleanPhone: separators are removed, parentheses are kept
CleanPhoneSeparatorsOnly(phone) == SelectSeq(phone, LAMBDA c : c \notin Sep \cup Space)

\* re.sub(r'[^\d+]', '', phone)
CleanPhone(phone) == SelectSeq(phone, LAMBDA c : c \in Digit \cup {"+"})

RECURSIVE CleanAll(_, _)
\* for phone in phones: ... if cleaned not in cleaned_phones: append
CleanAll(raw, cleaned_phones) ==
    IF raw = <<>> THEN cleaned_phones
    ELSE LET cleaned == CleanPhone(Head(raw))
         IN  CleanAll(Tail(raw),
                      IF cleaned \in Range(cleaned_phones) THEN cleaned_phones
                      ELSE Append(cleaned_phones, cleaned))

extract_phone_numbers(t) == CleanAll(FindAllPatterns(phone_patterns, t), <<>>)

-----------------------------------------------------------------------------
(* Parsed documents.  A document is the sequence of its elements in         *)
(* document order; an element has its tag name (html.parser lower-cases     *)
(* it), its class attribute (the values joined by a space, <<>> when        *)
(* absent), its id attribute (<<>> when absent) and its text nodes (those   *)
(* separated by childless tags such as <br>).                               *)

RECURSIVE LStrip(_)
LStrip(s) == IF s # <<>> /\ Head(s) \in Space THEN LStrip(Tail(s)) ELSE s

RECURSIVE RStrip(_)
RStrip(s) == IF s # <<>> /\ s[Len(s)] \in Space THEN RStrip(SubSeq(s, 1, Len(s) - 1)) ELSE s

\* str.strip()
Strip(s) == RStrip(LStrip(s))

\* element.get_text(strip=True): every text node stripped, the empty ones
\* dropped, the rest joined by the default separator ''
GetTextStrip(el) ==
    Flatten(SelectSeq([i \in DOMAIN el.strings |-> Strip(el.strings[i])],
                      LAMBDA s : s # <<>>))

\* soup.get_text(): every text node as written, joined by ''
GetText(d) == Flatten([i \in DOMAIN d |-> Flatten(d[i].strings)])

Contact == <<"c","o","n","t","a","c","t">>
Address == <<"a","d","d","r","e","s","s">>
Phone   == <<"p","h","o","n","e">>
Tel     == <<"t","e","l">>
Email   == <<"e","m","a","i","l">>
Reach   == <<"r","e","a","c","h">>
Footer  == <<"f","o","o","t","e","r">>
Section == <<"s","e","c","t","i","o","n">>

contact_terms == <<Contact, Address, Phone, Tel, Email, Reach, Footer>>

\* lambda x: x and term in x.lower() if x else False
AttrMatches(term, x) == x # <<>> /\ Contains(LowerStr(x), term)

\* One iteration of the loop over contact_terms (lines 60-65): the value
\* assigned to `elements` and then extended.  soup.find_all keeps document
\* order.
ElementsForTerm(term, d) ==
    SelectSeq(d, LAMBDA el : AttrMatches(term, el.class))
    \o SelectSeq(d, LAMBDA el : AttrMatches(term, el.id))
    \o SelectSeq(d, LAMBDA el : el.tag = Footer)
    \o SelectSeq(d, LAMBDA el : el.tag = Section /\ AttrMatches(term, el.class))

RECURSIVE ElementsAfterLoop(_, _, _)
\* for term in contact_terms: elements = soup.find_all(...) ...
\* `elements` is assigned anew on every iteration.
ElementsAfterLoop(terms, d, elements) ==
    IF terms = <<>> THEN elements
    ELSE ElementsAfterLoop(Tail(terms), d, ElementsForTerm(Head(terms), d))

\* lines 67-73: the non-empty texts of the elements left after the loop
find_contact_sections(d) ==
    LET elements == ElementsAfterLoop(contact_terms, d, <<>>)
    IN  SelectSeq([i \in DOMAIN elements |-> GetTextStrip(elements[i])],
                  LAMBDA t : t # <<>>)

\* ' '.join(contact_sections) if contact_sections else soup.get_text()
AllText(d, contact_sections) ==
    IF contact_sections # <<>> THEN JoinWith(<<" ">>, contact_sections)
    ELSE GetText(d)

\* 'Contact section' if contact_sections else 'Full page scan'
SourceKind(contact_sections) ==
    IF contact_sections # <<>> THEN "Contact section" ELSE "Full page scan"

\* lines 95-100
SuccessRecord(url, es, ps, contact_sections) ==
    [url |-> url, emails |-> EmailsField(es), phone_numbers |-> PhonesField(ps),
     source |-> SourceKind(contact_sections)]

-----------------------------------------------------------------------------
(* Values of the variables a specification does not use *)

NoRecord  == [url |-> "", emails |-> <<>>, phone_numbers |-> <<>>, source |-> ""]
NoOutcome == [kind |-> "none"]

TextIdle == text = <<>> /\ emails = <<>> /\ phones = <<>> /\ field = <<>>
PageIdle == doc = <<>> /\ sections = <<>> /\ record = NoRecord
RunIdle  == /\ urls = <<>> /\ delay = 0 /\ idx = 0 /\ results = <<>> /\ gets = <<>>
            /\ events = <<>> /\ clock = 0 /\ file = <<>> /\ outcome = NoOutcome

pageVars == <<doc, sections, record>>
runVars  == <<urls, delay, idx, results, gets, events, clock, file, outcome>>

\* the texts made of at most n pieces of `chunks`
Texts(chunks, n) == {Flatten(s) : s \in UNION {[1..k -> chunks] : k \in 0..n}}

-----------------------------------------------------------------------------
(* SpecEmail: extract_emails on a text, then the record's emails field *)

MaxEmailChunks == 4

EmailChunks ==
    { <<"a","@","b",".","i","o"," ">>, <<"A","@","b",".","i","o"," ">>, <<" ">>,
      <<"a","@">>, ExampleCom, <<"D","o","m","a","i","n",".","C","O","M">>,
      <<"x">> }

InitEmail ==
    /\ text \in Texts(EmailChunks, MaxEmailChunks)
    /\ emails = <<>> /\ phones = <<>> /\ field = <<>>
    /\ pc = "emails_call"
    /\ PageIdle /\ RunIdle

\* line 90: emails = self.extract_emails(all_text)
ExtractEmails ==
    /\ pc = "emails_call"
    /\ emails' \in extract_emails(text)
    /\ pc' = "emails_returned"
    /\ UNCHANGED <<text, phones, field, pageVars, runVars>>

\* line 97: the record's 'emails' value
JoinEmails ==
    /\ pc = "emails_returned"
    /\ field' = EmailsField(emails)
    /\ pc' = "emails_joined"
    /\ UNCHANGED <<text, emails, phones, pageVars, runVars>>

NextEmail == ExtractEmails \/ JoinEmails

SpecEmail == InitEmail /\ [][NextEmail]_vars

-----------------------------------------------------------------------------
(* SpecPhone: extract_phone_numbers on a text, then the phone_numbers field *)

MaxPhoneChunks == 4

PhoneChunks ==
    { <<"+","1">>, <<" ">>, <<"(","4","1","5",")">>, <<"4","1","5">>,
      <<"5","5","5","-","2","6","7","1">>, <<"5","5","5","2","6","7","1">>,
      <<"x">> }

InitPhone ==
    /\ text \in Texts(PhoneChunks, MaxPhoneChunks)
    /\ emails = <<>> /\ phones = <<>> /\ field = <<>>
    /\ pc = "phones_call"
    /\ PageIdle /\ RunIdle

\* line 91: phones = self.extract_phone_numbers(all_text)
ExtractPhones ==
    /\ pc = "phones_call"
    /\ phones' = extract_phone_numbers(text)
    /\ pc' = "phones_returned"
    /\ UNCHANGED <<text, emails, field, pageVars, runVars>>

\* line 98: the record's 'phone_numbers' value
JoinPhones ==
    /\ pc = "phones_returned"
    /\ field' = PhonesField(phones)
    /\ pc' = "phones_joined"
    /\ UNCHANGED <<text, emails, phones, pageVars, runVars>>

NextPhone == ExtractPhones \/ JoinPhones

SpecPhone == InitPhone /\ [][NextPhone]_vars

-----------------------------------------------------------------------------
(* SpecPage: the extraction part of scrape_page (lines 83-100) on a parsed  *)
(* document                                                                 *)

MaxElems == 2
MaxNodes == 2

Div == <<"d","i","v">>

\* (tag, class, id) of the elements the documents are made of
AttrProfiles ==
    { <<Div, <<>>, <<>> >>,
      <<Div, <<"c","o","n","t","a","c","t","-","b","o","x">>, <<>> >>,
      <<Div, <<>>, <<"P","h","o","n","e">> >>,
      <<Footer, <<>>, <<>> >>,
      <<Section, <<"S","i","t","e","-","F","o","o","t","e","r">>, <<>> >>,
      <<Address, <<>>, <<>> >> }

NodeTexts == { <<"M","a","i","l"," ">>, <<"a","@","b",".","i","o">>, <<" ">> }

Elements ==
    {[tag |-> p[1], class |-> p[2], id |-> p[3], strings |-> s] :
        p \in AttrProfiles, s \in UNION {[1..k -> NodeTexts] : k \in 0..MaxNodes}}

Docs == UNION {[1..k -> Elements] : k \in 0..MaxElems}

PageUrl == "u"

InitPage ==
    /\ doc \in Docs
    /\ sections = <<>> /\ record = NoRecord
    /\ pc = "page_parsed"
    /\ TextIdle /\ RunIdle

\* line 86: contact_sections = self.find_contact_sections(soup)
FindContactSections ==
    /\ pc = "page_parsed"
    /\ sections' = find_contact_sections(doc)
    /\ pc' = "sections_found"
    /\ UNCHANGED <<text, emails, phones, field, doc, record, runVars>>

\* lines 87-100: the text scanned, the two extractions, the record
BuildRecord ==
    /\ pc = "sections_found"
    /\ text' = AllText(doc, sections)
    /\ emails' \in extract_emails(text')
    /\ phones' = extract_phone_numbers(text')
    /\ record' = SuccessRecord(PageUrl, emails', phones', sections)
    /\ pc' = "page_done"
    /\ UNCHANGED <<field, doc, sections, runVars>>

NextPage == FindContactSections \/ BuildRecord

SpecPage == InitPage /\ [][NextPage]_vars

-----------------------------------------------------------------------------
(* scrape_page: the fetch, the extraction and the two except clauses *)

ConnectionError == <<"C","o","n","n","e","c","t","i","o","n"," ","e","r","r","o","r">>
ErrorSentinel   == <<"E","r","r","o","r">>

\* lines 104-109
ConnectionErrorRecord(url, desc) ==
    [url |-> url, emails |-> ConnectionError, phone_numbers |-> ConnectionError,
     source |-> desc]

\* lines 112-117
ErrorRecord(url, desc) ==
    [url |-> url, emails |-> ErrorSentinel, phone_numbers |-> ErrorSentinel,
     source |-> desc]

\* the subclasses of requests.exceptions.RequestException that are raised
RequestExceptions == {"Timeout", "ConnectionError", "HTTPError"}

\* faulty variant of Handler: `except Exception` catches everything
HandlerGeneralOnly(url, exc, desc) == ErrorRecord(url, desc)

\* faulty variant of Handler: the first except clause catches everything
HandlerRequestOnly(url, exc, desc) == ConnectionErrorRecord(url, desc)

\* lines 102-117: the except clause an exception of class exc reaches
Handler(url, exc, desc) ==
    IF exc \in RequestExceptions THEN ConnectionErrorRecord(url, desc)
    ELSE ErrorRecord(url, desc)

\* response.raise_for_status() raises HTTPError for 4xx and 5xx
RaisesForStatus(status) == status >= 400 /\ status < 600

\* str(e) of that HTTPError
HttpErrorText(status) ==
    IF status < 500 THEN "Client Error" ELSE "Server Error"

\* What the network and the parser may do for one URL: requests.get raises
\* (timeout, DNS failure, connection refused), or returns a response with a
\* status and a document, whose extraction may raise.
WebDocs ==
    { << [tag |-> Footer, class |-> <<>>, id |-> <<>>,
          strings |-> << <<"a","@","b",".","i","o">> >>] >>,
      << [tag |-> Div, class |-> <<>>, id |-> <<>>,
          strings |-> << <<"a","@","b",".","i","o">>, <<" ">>,
                         <<"4","1","5"," ","5","5","5"," ","2","6","7","1">> >>] >> }

EmptyDoc == <<>>

Outcomes ==
    {[kind |-> "raise", exc |-> e[1], desc |-> e[2], status |-> 0, doc |-> EmptyDoc] :
        e \in { <<"Timeout", "Read timed out">>,
                <<"ConnectionError", "Name or service not known">>,
                <<"ConnectionError", "Connection refused">> }}
    \cup
    {[kind |-> "response", exc |-> "", desc |-> "", status |-> s, doc |-> EmptyDoc] :
        s \in {404}}
    \cup
    {[kind |-> "response", exc |-> "", desc |-> "", status |-> 200, doc |-> d] :
        d \in WebDocs}
    \cup
    {[kind |-> "response", exc |-> "RecursionError",
      desc |-> "maximum recursion depth exceeded", status |-> 200, doc |-> EmptyDoc]}

\* requests.get or raise_for_status raises (lines 79-80)
FetchFails(o) == o.kind = "raise" \/ RaisesForStatus(o.status)

\* the extraction (lines 83-100) raises
ExtractionFails(o) == ~FetchFails(o) /\ o.exc # ""

\* The records scrape_page(url) may return when the world does o.
scrape_page(url, o) ==
    IF o.kind = "raise" THEN {Handler(url, o.exc, o.desc)}
    ELSE IF RaisesForStatus(o.status)
         THEN {Handler(url, "HTTPError", HttpErrorText(o.status))}
    ELSE IF o.exc # "" THEN {Handler(url, o.exc, o.desc)}
    ELSE LET contact_sections == find_contact_sections(o.doc)
             all_text == AllText(o.doc, contact_sections)
         IN  {SuccessRecord(url, es, extract_phone_numbers(all_text), contact_sections) :
                 es \in extract_emails(all_text)}

-----------------------------------------------------------------------------
(* Spec: scrape_multiple_urls *)

MaxUrls  == 3
MaxDelay == 1

Urls == {"u1", "u2"}

UrlLists == UNION {[1..n -> Urls] : n \in 0..MaxUrls}

NoFile == [written |-> FALSE, header |-> <<>>, rows |-> <<>>]

\* pd.DataFrame(results).to_csv(output_file, index=False): the columns are
\* the keys of the dicts (none when the list is empty), one row per dict
ToCsv(rs) ==
    [written |-> TRUE,
     header  |-> IF rs = <<>> THEN <<>> ELSE <<"url", "emails", "phone_numbers", "source">>,
     rows    |-> rs]

\* faulty variant of AppendResult: a URL already in the results gets no second record
AppendResultOncePerUrl(rs, rec) ==
    IF \E i \in DOMAIN rs : rs[i].url = rec.url THEN rs ELSE Append(rs, rec)

\* line 125: results.append(...)
AppendResult(rs, rec) == Append(rs, rec)

IsFailureRecord(rec) == rec.emails \in {ConnectionError, ErrorSentinel}

\* faulty variant of AfterAppend: the loop is left at the first failed URL
AfterAppendBreakOnFailure(i, rec) ==
    IF IsFailureRecord(rec) THEN [pc |-> "loop", idx |-> Len(urls) + 1]
    ELSE [pc |-> "sleep", idx |-> i]

\* faulty variant of AfterAppend: no sleep after a failed URL
AfterAppendNoSleepOnFailure(i, rec) ==
    IF IsFailureRecord(rec) THEN [pc |-> "loop", idx |-> i + 1]
    ELSE [pc |-> "sleep", idx |-> i]

\* lines 125-126: whatever the record, the body goes on to time.sleep
AfterAppend(i, rec) == [pc |-> "sleep", idx |-> i]

Init ==
    /\ urls \in UrlLists
    /\ delay \in 0..MaxDelay
    /\ idx = 1
    /\ results = <<>> /\ gets = <<>> /\ events = <<>> /\ clock = 0
    /\ file = NoFile /\ outcome = NoOutcome
    /\ pc = "loop"
    /\ TextIdle /\ PageIdle

\* lines 123-125: the next URL is scraped and its record appended
ScrapeNext ==
    /\ pc = "loop"
    /\ idx <= Len(urls)
    /\ \E o \in Outcomes : \E rec \in scrape_page(urls[idx], o) :
          /\ outcome' = o
          /\ record' = rec
          /\ gets' = Append(gets, urls[idx])
          /\ events' = events \o << <<"get", idx>> >>
                       \o (IF FetchFails(o) THEN <<>> ELSE << <<"extract", idx>> >>)
                       \o << <<"append", idx>> >>
          /\ results' = AppendResult(results, rec)
          /\ pc' = AfterAppend(idx, rec).pc
          /\ idx' = AfterAppend(idx, rec).idx
    /\ UNCHANGED <<text, emails, phones, field, doc, sections, urls, delay, clock, file>>

\* line 126: time.sleep(self.delay), then the loop takes the next URL
Sleep ==
    /\ pc = "sleep"
    /\ clock' = clock + delay
    /\ events' = Append(events, <<"sleep", idx>>)
    /\ idx' = idx + 1
    /\ pc' = "loop"
    /\ UNCHANGED <<text, emails, phones, field, doc, sections, record, urls, delay,
                   results, gets, file, outcome>>

\* lines 129-132: the loop is over, the CSV is written
SaveCsv ==
    /\ pc = "loop"
    /\ idx > Len(urls)
    /\ file' = ToCsv(results)
    /\ events' = Append(events, <<"write", 0>>)
    /\ pc' = "done"
    /\ UNCHANGED <<text, emails, phones, field, doc, sections, record, urls, delay,
                   idx, results, gets, clock, outcome>>

\* line 130: to_csv raises (the file cannot be written); the exception leaves
\* scrape_multiple_urls
SaveCsvFails ==
    /\ pc = "loop"
    /\ idx > Len(urls)
    /\ pc' = "failed"
    /\ UNCHANGED <<text, emails, phones, field, doc, sections, record, urls, delay,
                   idx, results, gets, events, clock, file, outcome>>

Next == ScrapeNext \/ Sleep \/ SaveCsv \/ SaveCsvFails

Spec == Init /\ [][Next]_vars

-----------------------------------------------------------------------------
(* Claims about the extractors *)

\* C7 (helper): the match does not contain a placeholder domain, whatever its case
NoPlaceholder(e) ==
    ~Contains(LowerStr(e), ExampleCom) /\ ~Contains(LowerStr(e), DomainCom)

\* C7: the list extract_emails returns has no entry containing example.com or
\* domain.com (case-insensitively) and no two equal entries; a page whose only
\* email matches are placeholders is reported with emails = "No email found".
C7_EmailsFiltered ==
    /\ pc \in {"emails_returned", "emails_joined"} =>
          /\ \A i \in DOMAIN emails : NoPlaceholder(emails[i])
          /\ \A i, j \in DOMAIN emails : emails[i] = emails[j] => i = j
    /\ (pc = "emails_joined"
        /\ \A i \in DOMAIN FindAll(email_pattern, text) :
              ~NoPlaceholder(FindAll(email_pattern, text)[i]))
       => field = NoEmailFound

\* C7 witness: the text holds the same address twice and a placeholder written
\* with capitals, and the returned list is not empty
C7_Witness ==
    LET raw == FindAll(email_pattern, text)
    IN  /\ pc = "emails_joined"
        /\ \E i, j \in DOMAIN raw : i # j /\ raw[i] = raw[j] /\ NoPlaceholder(raw[i])
        /\ \E i \in DOMAIN raw : ~NoPlaceholder(raw[i]) /\ raw[i] # LowerStr(raw[i])
        /\ emails # <<>>
        /\ field # NoEmailFound

\* C8: every string extract_phone_numbers returns is made of digits and at most
\* one '+', which is then its first character.
C8_PhonesDigitsPlus ==
    pc \in {"phones_returned", "phones_joined"} =>
        \A i \in DOMAIN phones : \A k \in DOMAIN phones[i] :
            \/ phones[i][k] \in Digit
            \/ phones[i][k] = "+" /\ k = 1

\* C8 witness: a raw match with '+', parentheses and a separator was cleaned
C8_Witness ==
    /\ pc = "phones_returned"
    /\ \E i \in DOMAIN phones : phones[i][1] = "+"
    /\ \E i \in DOMAIN FindAll(phone_pattern_a, text) :
          /\ "(" \in Range(FindAll(phone_pattern_a, text)[i])
          /\ "-" \in Range(FindAll(phone_pattern_a, text)[i])

\* C9: the output is the ordered de-duplication of the cleaned raw matches of
\* patterns a, b, c concatenated in that order: the same strings, none twice,
\* in the order of their first occurrence.
C9_MergeOrder ==
    pc \in {"phones_returned", "phones_joined"} =>
        LET raw == FindAll(phone_pattern_a, text) \o FindAll(phone_pattern_b, text)
                   \o FindAll(phone_pattern_c, text)
            cleaned == [i \in DOMAIN raw |-> CleanPhone(raw[i])]
            First(x) == CHOOSE i \in DOMAIN cleaned :
                            cleaned[i] = x /\ \A j \in 1..(i - 1) : cleaned[j] # x
        IN  /\ Range(phones) = Range(cleaned)
            /\ \A i, j \in DOMAIN phones :
                  i < j => phones[i] # phones[j] /\ First(phones[i]) < First(phones[j])

\* C9 witness: patterns a, b and c all match, a later raw match cleans to a
\* string already present and is discarded
C9_Witness ==
    /\ pc = "phones_returned"
    /\ FindAll(phone_pattern_a, text) # <<>>
    /\ FindAll(phone_pattern_b, text) # <<>>
    /\ FindAll(phone_pattern_c, text) # <<>>
    /\ Len(phones) >= 2
    /\ Len(phones) < Len(FindAll(phone_pattern_a, text)) + Len(FindAll(phone_pattern_b, text))
                     + Len(FindAll(phone_pattern_c, text))

-----------------------------------------------------------------------------
(* Claims about region selection and the page record *)

\* C5 (helper): the element's class, id or tag name contains the term
MatchesTerm(term, el) ==
    \/ AttrMatches(term, el.class)
    \/ AttrMatches(term, el.id)
    \/ Contains(el.tag, term)

\* C5: region selection is inclusive over the whole term list: every element
\* with non-empty text whose class, id or tag name contains one of the seven
\* terms contributes its text to the fragments find_contact_sections returns.
C5_AllTermsContribute ==
    pc \in {"sections_found", "page_done"} =>
        \A k \in DOMAIN contact_terms : \A i \in DOMAIN doc :
            (GetTextStrip(doc[i]) # <<>> /\ MatchesTerm(contact_terms[k], doc[i]))
                => GetTextStrip(doc[i]) \in Range(sections)

\* C6 (helper): s is exactly one email address, and not a placeholder
IsEmail(s) == FindAll(email_pattern, s) = <<s>> /\ NoPlaceholder(s)

\* C6 (helper): no element carries a contact-like class, id or tag name
NoContactMarkers(d) ==
    \A i \in DOMAIN d : \A k \in DOMAIN contact_terms :
        d[i].tag = Footer \/ ~MatchesTerm(contact_terms[k], d[i])

\* C6: source is "Contact section" exactly when region selection yielded a
\* fragment and "Full page scan" otherwise; the emails come from the fragments
\* in the first case and from the full text in the second; a document with a
\* footer holding an email and no other marker gives "Contact section" with
\* that email found; a document with no marker and no footer gives "Full page
\* scan".
C6_SourceAndScope ==
    pc = "page_done" =>
        /\ (record.source = "Contact section") = (sections # <<>>)
        /\ (record.source = "Full page scan") = (sections = <<>>)
        /\ sections # <<>> =>
              \A i \in DOMAIN emails : \E j \in DOMAIN sections :
                  Contains(sections[j], emails[i])
        /\ sections = <<>> =>
              \A i \in DOMAIN emails : Contains(GetText(doc), emails[i])
        /\ NoContactMarkers(doc) =>
              \A i \in DOMAIN doc : \A n \in DOMAIN doc[i].strings :
                  (doc[i].tag = Footer /\ IsEmail(doc[i].strings[n]))
                      => /\ record.source = "Contact section"
                         /\ doc[i].strings[n] \in Range(emails)
        /\ (NoContactMarkers(doc) /\ \A i \in DOMAIN doc : doc[i].tag # Footer)
              => record.source = "Full page scan"

-----------------------------------------------------------------------------
(* Claims about scrape_page's error handling and scrape_multiple_urls *)

\* C1: when scrape_multiple_urls completes, the report it wrote holds exactly
\* one record per input URL, in input order (record i has the i-th URL;
\* duplicated URLs each get their own record).
C1_OneRecordPerUrl ==
    pc = "done" =>
        /\ file.written
        /\ Len(file.rows) = Len(urls)
        /\ \A i \in DOMAIN urls : file.rows[i].url = urls[i]

\* C1 witness: a completed run over three URLs, the first two equal, whose
\* rows are a fetch failure, a success and an extraction failure
C1_Witness ==
    /\ pc = "done"
    /\ Len(urls) = 3
    /\ urls[1] = urls[2]
    /\ file.rows[1].emails = ConnectionError
    /\ file.rows[2].source = "Contact section"
    /\ file.rows[3].emails = ErrorSentinel

\* C2: every URL is handed to requests.get exactly once, in input order,
\* whatever happened to the earlier URLs; the loop never stops before the
\* last URL has been attempted.
C2_EachUrlFetchedOnce ==
    /\ pc = "loop" => idx <= Len(urls) + 1 /\ gets = SubSeq(urls, 1, idx - 1)
    /\ pc = "sleep" => idx <= Len(urls) /\ gets = SubSeq(urls, 1, idx)
    /\ pc \in {"done", "failed"} => gets = urls

\* C2 witness: a completed run whose first URL failed to fetch, whose second
\* failed in extraction, and whose third was still fetched
C2_Witness ==
    /\ pc = "done"
    /\ Len(urls) = 3
    /\ results[1].emails = ConnectionError
    /\ results[2].emails = ErrorSentinel
    /\ gets = urls

\* C3: when the fetch of a URL fails, scrape_page returns {url, "Connection
\* error", "Connection error", the error's description}, the extractor is not
\* run for that URL, and the run goes on (to the sleep and the next URL).
C3_FetchFailureRecord ==
    (pc = "sleep" /\ FetchFails(outcome)) =>
        /\ record = [url |-> urls[idx], emails |-> ConnectionError,
                     phone_numbers |-> ConnectionError,
                     source |-> IF outcome.kind = "raise" THEN outcome.desc
                                ELSE HttpErrorText(outcome.status)]
        /\ results[Len(results)] = record
        /\ <<"extract", idx>> \notin Range(events)
        /\ ENABLED Sleep

\* C3 witness: the second URL's fetch timed out after the first one's HTTP
\* status was refused by raise_for_status
C3_Witness ==
    /\ pc = "sleep"
    /\ idx = 2
    /\ outcome.kind = "raise" /\ outcome.exc = "Timeout"
    /\ results[1].source = "Client Error"

\* C4: when the fetch succeeds and the extraction raises, scrape_page
\* returns {url, "Error", "Error", the error's description} and the run goes
\* on; "Error" never comes from a fetch failure and "Connection error" never
\* from an extraction failure.
C4_ExtractionFailureRecord ==
    /\ (pc = "sleep" /\ ExtractionFails(outcome)) =>
          /\ record = [url |-> urls[idx], emails |-> ErrorSentinel,
                       phone_numbers |-> ErrorSentinel, source |-> outcome.desc]
          /\ results[Len(results)] = record
          /\ ENABLED Sleep
    /\ (pc = "sleep" /\ FetchFails(outcome)) =>
          record.emails # ErrorSentinel /\ record.phone_numbers # ErrorSentinel
    /\ (pc = "sleep" /\ ~FetchFails(outcome)) =>
          record.emails # ConnectionError /\ record.phone_numbers # ConnectionError

\* C4 witness: the extraction of the first of two URLs raised
C4_Witness ==
    /\ pc = "sleep"
    /\ idx = 1
    /\ Len(urls) = 2
    /\ ExtractionFails(outcome)
    /\ record.emails = ErrorSentinel

RECURSIVE Rounds(_)
\* C10 (helper): the events of the first n URLs: get, append, sleep for each
Rounds(n) ==
    IF n = 0 THEN <<>>
    ELSE Rounds(n - 1) \o << <<"get", n>>, <<"append", n>>, <<"sleep", n>> >>

\* C10: per URL the events are fetch/extract, append, sleep, in that order; the
\* sleep happens once after every URL, the last and the failed ones included;
\* the file is written once, only after the sleep that follows the last URL.
C10_EventOrder ==
    LET steps == SelectSeq(events, LAMBDA e : e[1] # "extract")
    IN  /\ pc = "loop" => steps = Rounds(idx - 1) /\ clock = (idx - 1) * delay
        /\ pc = "sleep" =>
              /\ steps = Rounds(idx - 1) \o << <<"get", idx>>, <<"append", idx>> >>
              /\ clock = (idx - 1) * delay
        /\ pc = "done" =>
              /\ steps = Rounds(Len(urls)) \o << <<"write", 0>> >>
              /\ clock = Len(urls) * delay
        /\ pc = "failed" => steps = Rounds(Len(urls))
        /\ file.written = (pc = "done")

\* C10 witness: a completed run with a positive delay whose last URL failed
C10_Witness ==
    /\ pc = "done"
    /\ delay > 0
    /\ Len(urls) >= 2
    /\ results[Len(urls)].emails = ConnectionError
    /\ clock = Len(urls) * delay

====
